---- MODULE Spec2Model ----
(***************************************************************************)
(* Model of generate.py: the Logseq page generator.                        *)
(*                                                                         *)
(* Text is a sequence of tokens.  A token is a word ("generated", "true",  *)
(* "Hello"), a single character (":", " ", "\n", "\"", "/") or one of the  *)
(* interpolation tokens of configparser ("%", "%%", "%(title)s").  Words   *)
(* never contain one another, so equality of token sequences is equality   *)
(* of the strings they spell.  File names and directory names are token    *)
(* sequences too; a directory path is a sequence of directory names.       *)
(***************************************************************************)
EXTENDS Integers, Sequences, FiniteSets, TLC

\* ------------------------------------------------------------------------
\* Bounds of the model
\* ------------------------------------------------------------------------
MaxRuns == 2          \* invocations of the program in one behaviour
MaxFiles == 2         \* files in the pages directory before the first run
MaxDescriptors == 2   \* index.ini files in the assets tree

\* ------------------------------------------------------------------------
\* Program constants
\* ------------------------------------------------------------------------
GENERATED_MARKER == <<"generated", ":", ":", " ", "true">>
MAX_INTERPOLATION_DEPTH == 10

NoFile == <<"<absent>">>     \* the name is not an entry of the directory
Denied == <<"<denied>">>     \* an entry open() raises on (a directory, mode 000)
Whitespace == {" ", "\n"}
Min(S) == CHOOSE x \in S : \A y \in S : x <= y

\* ------------------------------------------------------------------------
\* str methods used by the program
\* ------------------------------------------------------------------------
RECURSIVE lstrip(_, _)
lstrip(s, chars) ==
    IF s # <<>> /\ Head(s) \in chars THEN lstrip(Tail(s), chars) ELSE s

RECURSIVE rstrip(_, _)
rstrip(s, chars) ==
    IF s # <<>> /\ s[Len(s)] \in chars
    THEN rstrip(SubSeq(s, 1, Len(s) - 1), chars) ELSE s

strip(s, chars) == rstrip(lstrip(s, chars), chars)

\* f.readline(): the text up to and including the first newline
readline(text) ==
    LET nl == {i \in 1..Len(text) : text[i] = "\n"}
    IN  IF nl = {} THEN text ELSE SubSeq(text, 1, Min(nl))

\* s.split("::", 1): at most one split, at the leftmost "::"
split_once(s) ==
    LET at == {i \in 1..(Len(s) - 1) : s[i] = ":" /\ s[i + 1] = ":"}
    IN  IF at = {} THEN <<s>>
        ELSE <<SubSeq(s, 1, Min(at) - 1), SubSeq(s, Min(at) + 2, Len(s))>>

endswith_md(filename) == filename # <<>> /\ filename[Len(filename)] = ".md"

\* variant of the code, for comparison: the two parts are compared without being trimmed
is_generated_untrimmed(text) ==
    LET first_line == strip(readline(text), Whitespace)
        parts == split_once(first_line)
    IN  Len(parts) = 2 /\ parts[1] = <<"generated">> /\ parts[2] = <<" ", "true">>

\* variant of the code, for comparison: the marker is looked for on every line (f.read() for f.readline())
is_generated_any_line(text) ==
    \E i \in 1..(Len(text) - Len(GENERATED_MARKER) + 1) :
        SubSeq(text, i, i + Len(GENERATED_MARKER) - 1) = GENERATED_MARKER

\* lines 28-30: the ownership test of clear_build
is_generated(text) ==
    LET first_line == strip(readline(text), Whitespace)
        raw == split_once(first_line)
        parts == [i \in 1..Len(raw) |-> strip(raw[i], Whitespace)]
    IN  Len(parts) = 2 /\ parts[1] = <<"generated">> /\ parts[2] = <<"true">>

\* ------------------------------------------------------------------------
\* configparser.ConfigParser() with its defaults: strict, BasicInterpolation,
\* optionxform = str.lower, default_section = "DEFAULT".
\*
\* An index.ini is given by its sections in file order; a section is
\* [name, entries], an entry is [key, value], the value being the text the
\* parser assembles for the key (continuation lines joined by "\n").
\* An ordered dict is a sequence of [key, value] records with distinct keys.
\* ------------------------------------------------------------------------
DEFAULTSECT == "DEFAULT"

Upper == [k \in {"Title", "Content"} |-> IF k = "Title" THEN "title" ELSE "content"]

\* RawConfigParser.optionxform: option names are lower-cased
optionxform(key) == IF key \in DOMAIN Upper THEN Upper[key] ELSE key

Keys(d) == {d[i].key : i \in DOMAIN d}
Lookup(d, k) == d[CHOOSE i \in DOMAIN d : d[i].key = k].value

\* d[k] = v
Put(d, k, v) ==
    IF k \in Keys(d)
    THEN [i \in DOMAIN d |-> IF d[i].key = k THEN [key |-> k, value |-> v] ELSE d[i]]
    ELSE Append(d, [key |-> k, value |-> v])

\* d.update(e)
RECURSIVE Update(_, _)
Update(d, e) ==
    IF e = <<>> THEN d ELSE Update(Put(d, Head(e).key, Head(e).value), Tail(e))

\* the options of one section as _read stores them; a key met twice in the
\* section raises DuplicateOptionError
RECURSIVE read_entries(_, _)
read_entries(entries, acc) ==
    IF entries = <<>> THEN [ok |-> TRUE, opts |-> acc]
    ELSE LET key == optionxform(Head(entries).key)
         IN  IF key \in Keys(acc) THEN [ok |-> FALSE, opts |-> <<>>]
             ELSE read_entries(Tail(entries),
                               Append(acc, [key |-> key, value |-> Head(entries).value]))

\* RawConfigParser._read over the sections of the file: DEFAULT goes to the
\* defaults, a section met twice raises DuplicateSectionError
RECURSIVE read_sections(_, _)
read_sections(ini, cfg) ==
    IF ini = <<>> \/ ~cfg.ok THEN cfg
    ELSE LET sec == Head(ini)
         IN  IF sec.name = DEFAULTSECT
             THEN LET r == read_entries(sec.entries, cfg.defaults)
                  IN  read_sections(Tail(ini), [cfg EXCEPT !.ok = r.ok, !.defaults = r.opts])
             ELSE IF \E i \in DOMAIN cfg.sections : cfg.sections[i].name = sec.name
             THEN [cfg EXCEPT !.ok = FALSE]
             ELSE LET r == read_entries(sec.entries, <<>>)
                  IN  read_sections(Tail(ini),
                        [cfg EXCEPT !.ok = r.ok,
                                    !.sections = Append(@, [name |-> sec.name, opts |-> r.opts])])

\* config.read(ini_path)
read(ini) == read_sections(ini, [ok |-> TRUE, defaults |-> <<>>, sections |-> <<>>])

has_section(cfg, section) == \E i \in DOMAIN cfg.sections : cfg.sections[i].name = section

Options(cfg, section) ==
    cfg.sections[CHOOSE i \in DOMAIN cfg.sections : cfg.sections[i].name = section].opts

\* config.has_option: the option is in the section or in the defaults
has_option(cfg, section, option) ==
    /\ has_section(cfg, section)
    /\ \/ optionxform(option) \in Keys(Options(cfg, section))
       \/ optionxform(option) \in Keys(cfg.defaults)

\* the interpolation tokens and the option each reference names
RefKey == [t \in {"%(title)s", "%(self)s"} |-> IF t = "%(title)s" THEN "title" ELSE "self"]
HasPercent(v) == \E i \in DOMAIN v : v[i] \in {"%", "%%"} \cup DOMAIN RefKey

Raised == [ok |-> FALSE, value |-> <<>>]
Value(v) == [ok |-> TRUE, value |-> v]
Then(a, b) == IF a.ok /\ b.ok THEN Value(a.value \o b.value) ELSE Raised

\* BasicInterpolation._interpolate_some
RECURSIVE interpolate_some(_, _, _)
interpolate_some(rest, map, depth) ==
    IF depth > MAX_INTERPOLATION_DEPTH THEN Raised
    ELSE IF rest = <<>> THEN Value(<<>>)
    ELSE LET c == Head(rest)
         IN  IF c = "%%" THEN Then(Value(<<"%">>), interpolate_some(Tail(rest), map, depth))
             ELSE IF c \in DOMAIN RefKey
             THEN LET var == optionxform(RefKey[c])
                  IN  IF var \notin Keys(map) THEN Raised
                      ELSE LET v == Lookup(map, var)
                           IN  Then(IF HasPercent(v)
                                    THEN interpolate_some(v, map, depth + 1)
                                    ELSE Value(v),
                                    interpolate_some(Tail(rest), map, depth))
             ELSE IF c = "%" THEN Raised
             ELSE Then(Value(<<c>>), interpolate_some(Tail(rest), map, depth))

\* BasicInterpolation.before_get
before_get(value, map) == interpolate_some(value, map, 1)

\* the section's options over the defaults (the dict `d` of get and items)
Unified(cfg, section) == Update(cfg.defaults, Options(cfg, section))

\* config.get(section, option)
get(cfg, section, option) ==
    LET d == Unified(cfg, section)
    IN  before_get(Lookup(d, optionxform(option)), d)

\* config.items(section): [ok, list], list being the (key, value) pairs
RECURSIVE items_from(_, _)
items_from(rest, d) ==
    IF rest = <<>> THEN [ok |-> TRUE, list |-> <<>>]
    ELSE LET v == before_get(Head(rest).value, d)
             more == items_from(Tail(rest), d)
         IN  IF v.ok /\ more.ok
             THEN [ok |-> TRUE,
                   list |-> <<[key |-> Head(rest).key, value |-> v.value]>> \o more.list]
             ELSE [ok |-> FALSE, list |-> <<>>]

items(cfg, section) == LET d == Unified(cfg, section) IN items_from(d, d)

\* ------------------------------------------------------------------------
\* build_markdown: the processing of one index.ini.
\*
\* A descriptor is [ini, files]: the index.ini and the files of its
\* directory (name -> text, or Denied for an entry open() raises on).
\* ------------------------------------------------------------------------
\* "\n".join(lines)
RECURSIVE join_lines(_)
join_lines(lines) ==
    IF lines = <<>> THEN <<>>
    ELSE IF Len(lines) = 1 THEN lines[1]
    ELSE lines[1] \o <<"\n">> \o join_lines(Tail(lines))

\* os.path.relpath(root, ASSETS_DIR) for the directory at path `dir`
RECURSIVE relpath(_)
relpath(dir) ==
    IF dir = <<>> THEN <<".">>
    ELSE IF Len(dir) = 1 THEN dir[1]
    ELSE dir[1] \o <<"/">> \o relpath(Tail(dir))

\* s.replace(old, new) for one-token old and new
replace(s, old, new) == [i \in DOMAIN s |-> IF s[i] = old THEN new ELSE s[i]]

\* variant of the code, for comparison: only the directory's own name is used
output_filename_basename(dir) ==
    (IF dir = <<>> THEN <<"index">> ELSE dir[Len(dir)]) \o <<".md">>

\* lines 88-95
output_filename(dir) ==
    LET relative_path == relpath(dir)
        output_filename_base ==
            IF relative_path = <<".">> THEN <<"index">>
            ELSE replace(relative_path, "/", "___")
    IN  output_filename_base \o <<".md">>

\* os.path.exists(os.path.join(root, name)): an empty name is the directory
path_exists(desc, name) == name = <<>> \/ name \in DOMAIN desc.files

\* open(...).read() raises on a directory and on a file it may not open
can_read(desc, name) == name # <<>> /\ desc.files[name] # Denied

\* variant of the code, for comparison: the marker line is written without its space
marker_line_nospace == <<"generated", ":", ":", "true">>

marker_line == GENERATED_MARKER

\* lines 77-85: the marker, one line per property, a blank line, the body
assemble(props, md_content) ==
    LET output_content ==
            <<marker_line>> \o
            [i \in DOMAIN props |-> <<props[i].key, ":", ":", " ">> \o props[i].value]
    IN  join_lines(output_content) \o <<"\n", "\n">> \o md_content

Outcome(kind, file, text) == [kind |-> kind, file |-> file, text |-> text]

\* lines 55-96 and 103-104, up to the write: what is to be written, a skip,
\* or the exception caught
process(dir, desc) ==
    LET config == read(desc.ini)
    IN  IF ~config.ok THEN Outcome("Error", <<>>, <<>>)
        ELSE IF ~has_section(config, "header") \/ ~has_option(config, "header", "content")
        THEN Outcome("Skipping", <<>>, <<>>)
        ELSE LET content == get(config, "header", "content")
                 content_filename == strip(content.value, {"\""})
                 props == IF has_section(config, "properties")
                          THEN items(config, "properties")
                          ELSE [ok |-> TRUE, list |-> <<>>]
             IN  IF ~content.ok THEN Outcome("Error", <<>>, <<>>)
                 ELSE IF ~path_exists(desc, content_filename) THEN Outcome("Skipping", <<>>, <<>>)
                 ELSE IF ~can_read(desc, content_filename) THEN Outcome("Error", <<>>, <<>>)
                 ELSE IF ~props.ok THEN Outcome("Error", <<>>, <<>>)
                 ELSE Outcome("Generated", output_filename(dir),
                              assemble(props.list, desc.files[content_filename]))

\* variant of the code, for comparison: open(path, 'a')
write_append(old, text) == IF old = NoFile THEN text ELSE old \o text

\* lines 99-100: open(path, 'w') and write
write(old, text) == text

\* ------------------------------------------------------------------------
\* The file system and the program's position
\* ------------------------------------------------------------------------
VARIABLES
    assets,        \* the tree under ASSETS_DIR: directory path -> descriptor
    pages,         \* the entries of PAGES_DIR: file name -> text, Denied or NoFile
    pages_exists,  \* os.path.exists(PAGES_DIR)
    left,          \* invocations of the program still to come
    argv,          \* sys.argv[1] of the current invocation, NoArg if absent
    called,        \* the function __main__ called: build_markdown, clear_build, none
    pc,            \* exit, clear_build, clear_loop, makedirs, walk
    listing,       \* what is left of os.listdir(PAGES_DIR) in the loop of clear_build
    walk,          \* the directories os.walk has still to yield, next first
    out,           \* the message the last step printed
    before,        \* the output directory when the current invocation started
    written,       \* the file names written in the current invocation
    results,       \* index.ini directory -> what the current invocation printed for it
    previous       \* the function the preceding invocation called

vars == <<assets, pages, pages_exists, left, argv, called, pc, listing, walk, out,
          before, written, results, previous>>

\* directory names and the directories of the tree
A == <<"a">>
B == <<"b">>
AB == <<"a", "___", "b">>
INDEX == <<"index">>
Root == <<>>
DirPool == {Root, <<A>>, <<A, B>>, <<AB>>, <<INDEX>>}

\* file names of the pages directory
IndexMd == <<"index", ".md">>
AMd == <<"a", ".md">>
ABMd == <<"a", "___", "b", ".md">>
NotesTxt == <<"notes", ".txt">>
BMd == <<"b", ".md">>
PageNames == {IndexMd, AMd, BMd, ABMd, NotesTxt}

NoArg == "<none>"
ArgPool == {NoArg, "build", "clear", "BUILD", "frob"}

Capitals == [a \in {"BUILD"} |-> "build"]
\* str.lower
lower(a) == IF a \in DOMAIN Capitals THEN Capitals[a] ELSE a

Message(kind, dir, file) == [kind |-> kind, dir |-> dir, file |-> file]
Silent == Message("None", Root, <<>>)

IsPrefix(p, d) == Len(p) <= Len(d) /\ SubSeq(d, 1, Len(p)) = p
\* the directories that exist: those holding an index.ini and their parents
Dirs == {p \in DirPool : p = Root \/ \E d \in DOMAIN assets : IsPrefix(p, d)}
Subdirs(dir) == {c \in Dirs : Len(c) = Len(dir) + 1 /\ IsPrefix(dir, c)}
\* os.scandir yields the entries of a directory in arbitrary order
Orders(S) == {o \in [1..Cardinality(S) -> S] : \A i, j \in DOMAIN o : i # j => o[i] # o[j]}

Snapshot == [exists |-> pages_exists, pages |-> pages]
NoResults == [d \in {} |-> "None"]

\* variant of the code, for comparison: an unknown command falls through to build_markdown
dispatch_default_build(a) ==
    IF a = NoArg THEN "build_markdown"
    ELSE IF lower(a) = "clear" THEN "clear_build"
    ELSE "build_markdown"

\* lines 112-124: the function __main__ calls
dispatch(a) ==
    IF a = NoArg THEN "build_markdown"
    ELSE IF lower(a) = "build" THEN "build_markdown"
    ELSE IF lower(a) = "clear" THEN "clear_build"
    ELSE "none"

\* lines 111-124
Main ==
    /\ pc = "exit" /\ left > 0
    /\ \E a \in ArgPool :
        /\ argv' = a
        /\ called' = dispatch(a)
        /\ pc' = IF dispatch(a) = "none" THEN "exit" ELSE "clear_build"
        /\ out' = IF a = NoArg THEN Message("Defaulting", Root, <<>>)
                  ELSE IF dispatch(a) = "none" THEN Message("Unknown command", Root, <<>>)
                  ELSE Silent
    /\ left' = left - 1
    /\ before' = Snapshot /\ written' = {} /\ results' = NoResults
    /\ previous' = called
    /\ UNCHANGED <<assets, pages, pages_exists, listing, walk>>

\* where clear_build returns to
AfterClear == IF called = "build_markdown" THEN "makedirs" ELSE "exit"

\* lines 18-23: the guard of clear_build and os.listdir
ClearEnter ==
    /\ pc = "clear_build"
    /\ IF ~pages_exists
       THEN /\ pc' = AfterClear
            /\ out' = Message("Nothing to clear", Root, <<>>)
            /\ UNCHANGED listing
       ELSE /\ pc' = "clear_loop"
            /\ listing' = {n \in PageNames : pages[n] # NoFile}
            /\ out' = Message("Clearing", Root, <<>>)
    /\ UNCHANGED <<assets, pages, pages_exists, left, argv, called, walk,
                   before, written, results, previous>>

\* lines 23-34: one iteration of the loop of clear_build
ClearFile ==
    /\ pc = "clear_loop"
    /\ \E filename \in listing :
        IF ~endswith_md(filename)
        THEN /\ listing' = listing \ {filename}
             /\ out' = Silent
             /\ UNCHANGED pages
        ELSE IF pages[filename] = Denied
        THEN /\ listing' = listing \ {filename}
             /\ out' = Message("Error processing file", Root, filename)
             /\ UNCHANGED pages
        ELSE IF is_generated(pages[filename])
        THEN /\ listing' = listing \ {filename}
             /\ pages' = [pages EXCEPT ![filename] = NoFile]
             /\ out' = Message("Removed", Root, filename)
        ELSE /\ listing' = listing \ {filename}
             /\ out' = Silent
             /\ UNCHANGED pages
    /\ UNCHANGED <<assets, pages_exists, left, argv, called, pc, walk,
                   before, written, results, previous>>

\* line 35
ClearFinish ==
    /\ pc = "clear_loop" /\ listing = {}
    /\ pc' = AfterClear
    /\ out' = Message("Clear build finished", Root, <<>>)
    /\ UNCHANGED <<assets, pages, pages_exists, left, argv, called, listing, walk,
                   before, written, results, previous>>

\* lines 46-50: os.makedirs(PAGES_DIR, exist_ok=True) and the start of os.walk
MakeDirs ==
    /\ pc = "makedirs"
    /\ pages_exists' = TRUE
    /\ walk' = <<Root>>
    /\ pc' = "walk"
    /\ out' = Message("Starting build", Root, <<>>)
    /\ UNCHANGED <<assets, pages, left, argv, called, listing,
                   before, written, results, previous>>

\* variant of the code, for comparison: an exception ends the walk
walk_on_abort(rest, outcome) == IF outcome.kind = "Error" THEN <<>> ELSE rest

\* the directories still to visit once a descriptor has been dealt with
walk_on(rest, outcome) == rest

\* lines 50-104: os.walk yields the next directory, top-down, and its
\* index.ini, if it has one, is processed; open(output_filepath, 'w') raises
\* on an entry it may not open
WalkStep ==
    /\ pc = "walk" /\ walk # <<>>
    /\ LET root == Head(walk) IN
       \E order \in Orders(Subdirs(root)) :
          IF root \notin DOMAIN assets
          THEN /\ walk' = order \o Tail(walk)
               /\ out' = Silent
               /\ UNCHANGED <<pages, written, results>>
          ELSE LET processed == process(root, assets[root])
                   outcome == IF processed.kind = "Generated"
                                 /\ pages[processed.file] = Denied
                              THEN Outcome("Error", <<>>, <<>>)
                              ELSE processed
               IN  /\ results' = [d \in DOMAIN results \cup {root} |->
                                     IF d = root THEN outcome.kind ELSE results[d]]
                   /\ out' = Message(outcome.kind, root, outcome.file)
                   /\ walk' = walk_on(order \o Tail(walk), outcome)
                   /\ IF outcome.kind = "Generated"
                      THEN /\ pages' = [pages EXCEPT
                                          ![outcome.file] = write(@, outcome.text)]
                           /\ written' = written \cup {outcome.file}
                      ELSE UNCHANGED <<pages, written>>
    /\ UNCHANGED <<assets, pages_exists, left, argv, called, pc, listing,
                   before, previous>>

\* line 106
BuildFinish ==
    /\ pc = "walk" /\ walk = <<>>
    /\ pc' = "exit"
    /\ out' = Message("Build process finished", Root, <<>>)
    /\ UNCHANGED <<assets, pages, pages_exists, left, argv, called, listing, walk,
                   before, written, results, previous>>

Next == Main \/ ClearEnter \/ ClearFile \/ ClearFinish \/ MakeDirs \/ WalkStep \/ BuildFinish

\* ------------------------------------------------------------------------
\* Inputs: descriptors, trees and output directories
\* ------------------------------------------------------------------------
Entry(k, v) == [key |-> k, value |-> v]
Sec(name, entries) == [name |-> name, entries |-> entries]
BodyMd == <<"body.md">>
Desc(ini, body) == [ini |-> ini, files |-> [n \in {BodyMd} |-> body]]
NoBody(ini) == [ini |-> ini, files |-> [n \in {} |-> <<>>]]

World == <<"World">>
TwoParagraphs == <<"Hello", "\n", "\n", "World">>
Quoted == Sec("header", <<Entry("content", <<"\"", "body.md", "\"">>)>>)
Bare == Sec("header", <<Entry("content", BodyMd)>>)
Title == Entry("title", <<"Hello">>)

\* the example of the specification: a quoted content name and one property
Plain == Desc(<<Quoted, Sec("properties", <<Title>>)>>, World)
NoProperties == Desc(<<Bare>>, TwoParagraphs)
EmptyBody == Desc(<<Bare, Sec("properties", <<>>)>>, <<>>)
TwoProperties ==
    Desc(<<Bare, Sec("properties", <<Entry("tags", <<"World">>), Title>>)>>, TwoParagraphs)
CapitalKey == Desc(<<Bare, Sec("properties", <<Entry("Title", <<"Hello">>)>>)>>, World)
CapitalContent == Desc(<<Sec("header", <<Entry("Content", BodyMd)>>)>>, World)
DefaultsProperty ==
    Desc(<<Sec(DEFAULTSECT, <<Entry("author", <<"World">>)>>), Bare,
           Sec("properties", <<Title>>)>>, World)
DefaultsContent ==
    Desc(<<Sec(DEFAULTSECT, <<Entry("content", BodyMd)>>), Sec("header", <<>>)>>, World)
Escaped == Desc(<<Bare, Sec("properties", <<Entry("tags", <<"50", "%%">>)>>)>>, World)
Percent == Desc(<<Bare, Sec("properties", <<Entry("tags", <<"50", "%">>)>>)>>, World)
Reference ==
    Desc(<<Bare, Sec("properties", <<Title, Entry("tags", <<"%(title)s">>)>>)>>, World)
SelfReference ==
    Desc(<<Bare, Sec("properties", <<Entry("self", <<"%(self)s">>)>>)>>, World)
BlankInValue ==
    Desc(<<Bare, Sec("properties", <<Entry("title", TwoParagraphs)>>)>>, World)
TwoLineValue ==
    Desc(<<Bare, Sec("properties", <<Entry("title", <<"Hello", "\n", "World">>)>>)>>, World)
DuplicateKey ==
    Desc(<<Bare, Sec("properties", <<Entry("Title", World), Title>>)>>, World)
DuplicateSection == Desc(<<Bare, Sec("properties", <<Title>>), Bare>>, World)
NoHeader == Desc(<<Sec("properties", <<Title>>)>>, World)
CapitalHeader == Desc(<<Sec("Header", <<Entry("content", BodyMd)>>)>>, World)
NoContent == Desc(<<Sec("header", <<Title>>)>>, World)
MissingFile == NoBody(<<Quoted>>)
OtherFile == Desc(<<Sec("header", <<Entry("content", <<"other.md">>)>>)>>, World)
EmptyName == Desc(<<Sec("header", <<Entry("content", <<"\"", "\"">>)>>)>>, World)
DeniedBody == Desc(<<Quoted>>, Denied)

RichPool ==
    {Plain, NoProperties, EmptyBody, TwoProperties, CapitalKey, CapitalContent,
     DefaultsProperty, DefaultsContent, Escaped, Percent, Reference, SelfReference,
     BlankInValue, TwoLineValue, DuplicateKey, DuplicateSection, NoHeader,
     CapitalHeader, NoContent, MissingFile, OtherFile, EmptyName, DeniedBody}
SiblingPool == {Plain, DuplicateKey}
SmallPool == {Plain, NoProperties}

\* texts of files found in the pages directory
Generated == GENERATED_MARKER \o <<"\n", "\n", "Hello">>
NoSpace == <<"generated", ":", ":", "true", "\n", "Hello">>
MarkedFalse == <<"generated", ":", ":", " ", "false">>
Padded == <<" ", "generated", " ", ":", ":", " ", " ", "true", " ", "\n", "Hello">>
HandWritten == <<"Hello", "\n", "generated", ":", ":", " ", "true">>
Empty == <<>>
BlankFirst == <<"\n">> \o GENERATED_MARKER
ThreeColons == <<"generated", ":", ":", ":", "true">>
SplitTwice == <<"generated", ":", ":", " ", "true", ":", ":", "Hello">>
SpacedColons == <<"generated", ":", " ", ":", "true">>
NoKey == <<":", ":", "true">>
RichTexts ==
    {Generated, NoSpace, MarkedFalse, Padded, HandWritten, Empty, BlankFirst,
     ThreeColons, SplitTwice, SpacedColons, NoKey, Denied}
SmallTexts == {Generated, HandWritten, NoSpace, Denied}

\* the trees with at most k index.ini files, drawn from pool, in dirs
Trees(dirs, pool, k) ==
    UNION {[D -> pool] : D \in {S \in SUBSET dirs : Cardinality(S) <= k}}

\* the output directories with at most k entries, drawn from texts, named in names
Outputs(names, texts, k) ==
    {[n \in PageNames |-> IF n \in DOMAIN f THEN f[n] ELSE NoFile] :
        f \in UNION {[D -> texts] : D \in {S \in SUBSET names : Cardinality(S) <= k}}}

\* the state before the first invocation
Start(invocations) ==
    /\ left = invocations
    /\ argv = NoArg /\ called = "none" /\ pc = "exit"
    /\ listing = {} /\ walk = <<>> /\ out = Silent
    /\ before = [exists |-> pages_exists, pages |-> pages]
    /\ written = {} /\ results = NoResults
    /\ previous = "none"

Init ==
    /\ assets \in Trees(DirPool \ {<<A>>}, SmallPool, MaxDescriptors)
    /\ pages \in Outputs({IndexMd, ABMd}, SmallTexts, MaxFiles)
    /\ pages_exists \in {b \in BOOLEAN : b \/ \A n \in PageNames : pages[n] = NoFile}
    /\ Start(MaxRuns)

Spec == Init /\ [][Next]_vars

\* one invocation over every kind of file the pages directory may hold
InitClear ==
    /\ assets \in Trees({Root}, {Plain}, 1)
    /\ pages \in Outputs({IndexMd, ABMd, NotesTxt}, RichTexts, MaxFiles)
    /\ pages_exists \in {b \in BOOLEAN : b \/ \A n \in PageNames : pages[n] = NoFile}
    /\ Start(1)

SpecClear == InitClear /\ [][Next]_vars

\* one invocation over every kind of descriptor, alone or beside others
InitBuild ==
    /\ assets \in {t \in Trees({Root, <<A>>, <<AB>>}, RichPool, MaxDescriptors) :
                      Cardinality({d \in DOMAIN t : t[d] \notin SiblingPool}) <= 1}
    /\ pages \in Outputs({IndexMd, AMd}, {Generated, Denied}, MaxFiles)
    /\ pages_exists \in {b \in BOOLEAN : b \/ \A n \in PageNames : pages[n] = NoFile}
    /\ Start(1)

SpecBuild == InitBuild /\ [][Next]_vars

\* ------------------------------------------------------------------------
\* Vocabulary of the properties, stated apart from the program's operators
\* ------------------------------------------------------------------------
MdNames == {IndexMd, AMd, BMd, ABMd}

\* the text before the first newline
FirstLine(text) ==
    LET nl == {i \in 1..Len(text) : text[i] = "\n"}
    IN  IF nl = {} THEN text ELSE SubSeq(text, 1, Min(nl) - 1)

\* the text after the first empty line
AfterFirstBlank(text) ==
    LET at == {i \in 1..(Len(text) - 1) : text[i] = "\n" /\ text[i + 1] = "\n"}
    IN  IF at = {} THEN <<>> ELSE SubSeq(text, Min(at) + 2, Len(text))

NotSpace(t) == t # " "
\* the line is `generated`, `::`, `true` with any spaces around the three
OwnedLine(line) ==
    /\ SelectSeq(line, NotSpace) = <<"generated", ":", ":", "true">>
    /\ \E i \in 1..(Len(line) - 1) : line[i] = ":" /\ line[i + 1] = ":"

\* the line is the marker with any spaces before and after it
ExactMarkerLine(line) ==
    \E a \in 0..Len(line) :
        /\ a + Len(GENERATED_MARKER) <= Len(line)
        /\ SubSeq(line, a + 1, a + Len(GENERATED_MARKER)) = GENERATED_MARKER
        /\ \A i \in (1..a) \cup ((a + Len(GENERATED_MARKER) + 1)..Len(line)) : line[i] = " "

\* a file clear_build may read and whose first line passes for the marker
Owned(name, text) ==
    name \in MdNames /\ text \notin {NoFile, Denied} /\ OwnedLine(FirstLine(text))

\* the output file name the specification gives each directory
ExpectedName ==
    [d \in DirPool |->
        IF d = Root \/ d = <<INDEX>> THEN IndexMd
        ELSE IF d = <<A>> THEN AMd
        ELSE ABMd]

ClearDone == pc = "makedirs" \/ (pc = "exit" /\ called = "clear_build")
BuildDone == pc = "exit" /\ called = "build_markdown"
BuildArgs == {NoArg, "build", "BUILD"}

\* ------------------------------------------------------------------------
\* C1
\* ------------------------------------------------------------------------
\* C1 as stated: when Clear is done, a readable .md file has been deleted if
\* and only if its trimmed first line is the marker `generated:: true` itself,
\* so that `generated::true` and `generated:: false` are kept, and every file
\* kept has the text it had.
C1_Original ==
    ClearDone =>
        \A n \in MdNames :
            LET old == before.pages[n] IN
            old \notin {NoFile, Denied} =>
                /\ pages[n] = NoFile <=> ExactMarkerLine(FirstLine(old))
                /\ pages[n] # NoFile => pages[n] = old

\* C1 amended: when Clear is done, an entry of the output directory has been
\* deleted if and only if it is a .md file that could be read and whose first
\* line is `generated`, `::`, `true` with any spaces around the three parts:
\* `generated::true` is deleted, `generated:: false` is kept, and every file
\* kept has the text it had.
C1_ClearDeletesTrimmedMarker ==
    ClearDone =>
        \A n \in PageNames :
            LET old == before.pages[n] IN
            /\ pages[n] = NoFile <=> (old = NoFile \/ Owned(n, old))
            /\ pages[n] # NoFile => pages[n] = old
            /\ old = NoSpace /\ n \in MdNames => pages[n] = NoFile
            /\ old = MarkedFalse => pages[n] = MarkedFalse

C1_Witness ==
    /\ pc = "exit" /\ called = "clear_build"
    /\ \E n, m \in MdNames :
        /\ before.pages[n] = NoSpace /\ pages[n] = NoFile
        /\ before.pages[m] = MarkedFalse /\ pages[m] = MarkedFalse

\* ------------------------------------------------------------------------
\* C2
\* ------------------------------------------------------------------------
\* C2: the file Build has just written for a descriptor starts with the line
\* `generated:: true`, and the text after its first blank line is the text of
\* the descriptor's content file.
C2_Original ==
    out.kind = "Generated" =>
        LET text == pages[out.file]
            desc == assets[out.dir]
        IN  /\ FirstLine(text) = GENERATED_MARKER
            /\ AfterFirstBlank(text) = desc.files[BodyMd]

\* ------------------------------------------------------------------------
\* C3
\* ------------------------------------------------------------------------
SameAsBefore == pages = before.pages /\ pages_exists = before.exists
NoCollision ==
    \A d, e \in DOMAIN assets : d # e => ExpectedName[d] # ExpectedName[e]

\* C3 as stated: a Build that follows a Build leaves the output directory as
\* it found it.
C3_Original ==
    BuildDone /\ previous = "build_markdown" => SameAsBefore

\* C3 amended: a Build that follows a Build leaves the output directory as it
\* found it, provided no two descriptors of the tree derive the same output
\* file name.
C3_IdempotentWithoutCollision ==
    BuildDone /\ previous = "build_markdown" /\ NoCollision => SameAsBefore

C3_Witness ==
    /\ BuildDone /\ previous = "build_markdown" /\ NoCollision
    /\ Cardinality(written) = 2

\* ------------------------------------------------------------------------
\* C4
\* ------------------------------------------------------------------------
NoClearError == \A n \in MdNames : before.pages[n] # Denied

\* C4: nothing is written before the loop of Clear has ended; if Clear met no
\* error, every marked .md file that was there is gone when Clear ends, and
\* when Build ends the marked .md files of the output directory are exactly
\* the files this Build wrote.
C4_GeneratedAreThisBuilds ==
    /\ written # {} => pc \in {"walk", "exit"} /\ listing = {}
    /\ pc = "makedirs" /\ NoClearError =>
          \A n \in MdNames : Owned(n, before.pages[n]) => pages[n] = NoFile
    /\ BuildDone /\ NoClearError =>
          /\ {n \in PageNames : Owned(n, pages[n])} = written
          /\ \A n \in written : FirstLine(pages[n]) = GENERATED_MARKER

C4_Witness ==
    /\ BuildDone /\ NoClearError /\ written # {}
    /\ \E n \in MdNames :
        before.pages[n] = Generated /\ pages[n] = NoFile /\ n \notin written

\* ------------------------------------------------------------------------
\* C5
\* ------------------------------------------------------------------------
\* C5: the file Build writes for a descriptor is named by the descriptor's
\* directory alone: index.md at the root, the names along the path joined by
\* `___` plus `.md` below it, and the name holds no path separator.
C5_OutputName ==
    out.kind = "Generated" =>
        /\ out.file = ExpectedName[out.dir]
        /\ \A i \in DOMAIN out.file : out.file[i] # "/"
        /\ out.file \in written

C5_Witness ==
    /\ out.kind = "Generated" /\ out.dir = <<A, B>> /\ out.file = ABMd
    /\ IndexMd \in written /\ Root \in DOMAIN assets

\* ------------------------------------------------------------------------
\* C6
\* ------------------------------------------------------------------------
HeaderEntries(desc) ==
    UNION {{desc.ini[i].entries[j] : j \in DOMAIN desc.ini[i].entries} :
              i \in {k \in DOMAIN desc.ini : desc.ini[k].name = "header"}}
LacksHeader(desc) == \A i \in DOMAIN desc.ini : desc.ini[i].name # "header"
ContentEntries(desc) == {e \in HeaderEntries(desc) : e.key \in {"content", "Content"}}
NotQuote(t) == t # "\""
NamesMissingFile(desc) ==
    \E e \in ContentEntries(desc) : SelectSeq(e.value, NotQuote) \notin DOMAIN desc.files
Unusable(desc) ==
    LacksHeader(desc) \/ ContentEntries(desc) = {} \/ NamesMissingFile(desc)
NoFault(dir) ==
    /\ \A n \in DOMAIN assets[dir].files : assets[dir].files[n] # Denied
    /\ before.pages[ExpectedName[dir]] # Denied

\* C6: when Build ends, no output file has been written for a descriptor that
\* has no [header] section, no content entry in it, or a content entry naming
\* a file that does not exist, and the output file of every other descriptor
\* that parses and meets no I/O error has been written.
C6_Original ==
    BuildDone =>
        \A d \in DOMAIN assets :
            /\ Unusable(assets[d]) => results[d] # "Generated"
            /\ ~Unusable(assets[d]) /\ read(assets[d].ini).ok /\ NoFault(d) =>
                  results[d] = "Generated" /\ ExpectedName[d] \in written

\* ------------------------------------------------------------------------
\* C7
\* ------------------------------------------------------------------------
HasRun == pc = "exit" /\ out.kind # "None"
BuildRan == called = "build_markdown" /\ out.kind = "Build process finished"
ClearRan ==
    /\ called = "clear_build" /\ written = {}
    /\ out.kind \in {"Clear build finished", "Nothing to clear"}

\* C7 as stated: `build` runs Build, `clear` runs Clear alone, and any other
\* argument, or none, runs Build.
C7_Original ==
    HasRun =>
        /\ argv = "build" => BuildRan
        /\ argv = "clear" => ClearRan
        /\ argv \notin {"build", "clear"} => BuildRan

\* C7 amended: `build`, in any letter case, and an absent argument run Build;
\* `clear` runs Clear alone; an unrecognized argument prints the unknown
\* command and the usage hint and runs neither, so the output directory is
\* as it was.
C7_Dispatch ==
    /\ HasRun =>
        /\ argv \in BuildArgs => BuildRan
        /\ argv = "clear" => ClearRan
        /\ argv = "frob" =>
              /\ out.kind = "Unknown command" /\ called = "none"
              /\ pages = before.pages /\ pages_exists = before.exists
    /\ pc \in {"makedirs", "walk"} => argv \in BuildArgs
    /\ pc # "exit" => argv # "frob"

C7_Witness ==
    /\ HasRun /\ argv = "frob" /\ out.kind = "Unknown command"
    /\ \E n \in MdNames : pages[n] = Generated
    /\ DOMAIN assets # {}

\* ------------------------------------------------------------------------
\* C8
\* ------------------------------------------------------------------------
Declared(desc) ==
    IF \E i \in DOMAIN desc.ini : desc.ini[i].name = "properties"
    THEN desc.ini[CHOOSE i \in DOMAIN desc.ini : desc.ini[i].name = "properties"].entries
    ELSE <<>>

RECURSIVE PropertyLines(_)
PropertyLines(entries) ==
    IF entries = <<>> THEN <<>>
    ELSE <<"\n", Head(entries).key, ":", ":", " ">> \o Head(entries).value
         \o PropertyLines(Tail(entries))

\* C8: the file Build has just written for a descriptor is the marker line,
\* then one line `key:: value` per entry declared in [properties], in the
\* order declared and with key and value as declared, then a blank line and
\* the content.
C8_Original ==
    out.kind = "Generated" =>
        LET desc == assets[out.dir]
        IN  pages[out.file] =
                GENERATED_MARKER \o PropertyLines(Declared(desc))
                \o <<"\n", "\n">> \o desc.files[BodyMd]

\* ------------------------------------------------------------------------
\* C9
\* ------------------------------------------------------------------------
C9_State ==
    /\ BuildDone => DOMAIN results = DOMAIN assets
    /\ ClearDone =>
          \A n \in PageNames : Owned(n, before.pages[n]) => pages[n] = NoFile
    /\ pc = "exit" /\ called = "clear_build" /\ ~before.exists =>
          ~pages_exists /\ pages = before.pages

C9_Step ==
    /\ out'.kind \in {"Error", "Error processing file", "Nothing to clear"} =>
          pages' = pages /\ written' = written
    /\ pc = "clear_build" => pages_exists' = pages_exists

\* C9: a step that reports an error leaves the output directory as it was;
\* when Build ends every index.ini of the tree has been processed, whatever
\* failed on the way; when Clear ends every marked file it could read is
\* gone, whatever failed on the way; and Clear leaves a missing output
\* directory missing.
C9_FailureContained == []C9_State /\ [][C9_Step]_vars

C9_Witness ==
    /\ BuildDone
    /\ Root \in DOMAIN results /\ results[Root] = "Error"
    /\ <<A>> \in DOMAIN results /\ results[<<A>>] = "Generated"
    /\ \E n, m \in MdNames :
        /\ before.pages[n] = Denied /\ pages[n] = Denied
        /\ before.pages[m] = Generated /\ pages[m] # Generated

\* ------------------------------------------------------------------------
\* C10
\* ------------------------------------------------------------------------
\* C10 as stated: during and after a Build, every file whose first line does
\* not pass for the marker line is there with the text it had.
C10_Original ==
    called = "build_markdown" =>
        \A n \in PageNames :
            LET old == before.pages[n] IN
            old \notin {NoFile, Denied} /\ ~OwnedLine(FirstLine(old)) => pages[n] = old

\* C10 amended: during and after a Build, every entry of the output directory
\* that is not a .md file whose first line is `generated`, `::`, `true` with
\* any spaces around the three parts is still there, and has the text it had
\* unless Build wrote the output file of a descriptor under its name.
C10_HandAuthoredKept ==
    called = "build_markdown" =>
        \A n \in PageNames :
            LET old == before.pages[n] IN
            old # NoFile /\ ~Owned(n, old) =>
                /\ pages[n] # NoFile
                /\ \/ pages[n] = old
                   \/ n \in written /\ \E d \in DOMAIN assets : ExpectedName[d] = n

C10_Witness ==
    /\ BuildDone
    /\ before.pages[IndexMd] = HandWritten /\ pages[IndexMd] # HandWritten
    /\ before.pages[ABMd] = HandWritten /\ pages[ABMd] = HandWritten

====
